---- MODULE Spec2Model ----
(***************************************************************************)
(* Chat-history persistence (server/src/utils/fileStorage.ts), the chat    *)
(* routes (server/src/routes/chat.ts) and the completion service           *)
(* (server/src/services/openai.ts) of OpenStory, as a state machine.       *)
(*                                                                         *)
(* Node runs the handlers on one thread: a handler runs without            *)
(* interruption up to its next `await` on file-system or network I/O, and  *)
(* other requests run while it is suspended.  Every action below is one    *)
(* such segment: the completion of the awaited I/O together with all the   *)
(* synchronous code that follows it up to the next await.                  *)
(***************************************************************************)
EXTENDS Integers, Sequences, FiniteSets, TLC

\* ------------------------------------------------------------------ bounds
MaxOps == 2      \* calls issued in one behaviour by concurrent callers
MaxSeqOps == 3   \* calls issued in one behaviour by a caller that awaits each call
MaxChatOps == 2  \* requests and calls issued in one behaviour by a client of the routes
MaxApiOps == 2   \* calls issued in one behaviour by a caller that passes any log
MaxCorruptOps == 2  \* calls issued in one behaviour on a key with foreign content
MaxDirOps == 2  \* saves issued in one behaviour by the two callers that share a directory
MaxLiveOps == 2  \* requests issued in one behaviour whose calls all return
MaxDelOps == 3  \* calls issued in one behaviour by an appender and a deleter
MaxFailOps == 2  \* requests and calls issued in one behaviour with failing writes
MaxGamesOps == 3 \* calls of loadGames and reloadGames issued in one behaviour
MaxIsoOps == 2   \* requests and calls issued in one behaviour by two sessions
MaxKeysOps == 2  \* requests and calls issued in one behaviour on two keys
MaxPathOps == 2  \* calls issued in one behaviour with ids of any form
MaxRespondOps == 2  \* requests issued in one behaviour by concurrent clients
MaxTime == 1     \* largest value of the clock (Date.now())

\* ------------------------------------------------------------- the callers
Procs == {"p1", "p2"}                 \* requests / callers in flight at once
Sessions == {"s1", "s2"}              \* req.sessionID values
Catalog == {"fantasy-quest"}          \* ids of games.json
GameIds == Catalog \cup {"does-not-exist"}
\* strings a caller of the storage functions may give as sessionId or gameId:
\* names, names joined by the path separator, and the segments "." and ".."
PathIds == {"a", "b", "a/b", "b/a", ".", ".."}
\* the messages given to appendMessage (the timestamp is the time of the call)
AppendedMessages == {[role |-> "user", content |-> <<"h", "i">>],
                     [role |-> "system", content |-> <<"y", "o">>]}
\* the messages of a log given to saveChatHistory
SavedMessages == {<< >>,
                  <<[role |-> "user", content |-> <<"h", "i">>, timestamp |-> 0],
                    [role |-> "assistant", content |-> <<"o", "k">>, timestamp |-> 1]>>}
\* req.body.message: absent, not a string, or a string (a sequence of characters)
Texts == {<< >>, <<" ">>, <<" ", "h", "i", " ">>}
Bodies == {[type |-> "undefined", str |-> << >>], [type |-> "number", str |-> << >>]}
            \cup {[type |-> "string", str |-> t] : t \in Texts}
\* what the completion endpoint answers
Completions == {[kind |-> "content", text |-> <<"o", "k">>],
                [kind |-> "content", text |-> << >>],
                [kind |-> "apierror", text |-> << >>]}

NoCompletion == [kind |-> "none", text |-> << >>]

\* -------------------------------------------------------------- the values
Message(r, c, t) == [role |-> r, content |-> c, timestamp |-> t]
NoMsg == Message("none", << >>, 0)
ChatHistory(ms, g, s, c, u) ==
    [messages |-> ms, gameId |-> g, sessionId |-> s, createdAt |-> c, updatedAt |-> u]
NoLog == ChatHistory(<< >>, "", "", 0, 0)
NoBody == [type |-> "undefined", str |-> << >>]

\* games.json: the system prompt of a game
SystemPrompt(g) == <<"w", "i", "z">>

\* (variant: every id names a game)
getGameByIdAny(g) == [found |-> TRUE, systemPrompt |-> SystemPrompt(g)]

\* getGameById: the game of the catalog with this id, if any
getGameById(g) == [found |-> g \in Catalog, systemPrompt |-> SystemPrompt(g)]

\* gamesLoader.ts: a games array is an object (id) with the content it was read
\* from (the version of games.json); NoGames is null
NoGames == [id |-> 0, version |-> 0]
\* the array that startServer loaded before the server listens
StartupGames == [id |-> 1, version |-> 1]
GAMES_CONFIG_PATH == <<"games.json">>

\* ------------------------------------------------------------------- paths
\* A path is the sequence of its segments below the root of the file system.
USER_DATA_DIR == <<"user_data">>

\* the segments of a string between path separators
split(id) ==
    CASE id = "a/b" -> <<"a", "b">>
      [] id = "b/a" -> <<"b", "a">>
      [] OTHER -> <<id>>

\* path.normalize: empty and "." segments are dropped, ".." removes the segment
\* before it (at the root there is none)
RECURSIVE normalize(_, _)
normalize(segs, acc) ==
    IF segs = << >> THEN acc
    ELSE IF Head(segs) \in {"", "."} THEN normalize(Tail(segs), acc)
    ELSE IF Head(segs) = ".."
         THEN normalize(Tail(segs),
                        IF acc = << >> THEN acc ELSE SubSeq(acc, 1, Len(acc) - 1))
    ELSE normalize(Tail(segs), Append(acc, Head(segs)))

\* (variant: the session is left out of the path)
getChatFilePathNoSession(s, g) ==
    normalize(USER_DATA_DIR \o split(g) \o <<"chat.json">>, << >>)

\* path.join(USER_DATA_DIR, sessionId, gameId, 'chat.json')
getChatFilePath(s, g) ==
    normalize(USER_DATA_DIR \o split(s) \o split(g) \o <<"chat.json">>, << >>)
dirname(path) == SubSeq(path, 1, Len(path) - 1)
Prefixes(path) == {SubSeq(path, 1, n) : n \in 1..Len(path)}
Paths == {getChatFilePath(s, g) : s \in Sessions, g \in GameIds}

\* ------------------------------------------------- JSON text, as tokens
\* The content of a file is a sequence of tokens: punctuation and keys, string
\* literals and number literals.
Tok(k, s, n) == [k |-> k, s |-> s, n |-> n]
P(c) == Tok(c, << >>, 0)
Str(s) == Tok("str", s, 0)
Num(n) == Tok("num", << >>, n)
StringifyMessage(m) ==
    <<P("{"), P("role"), Str(<<m.role>>), P("content"), Str(m.content),
      P("timestamp"), Num(m.timestamp), P("}")>>

\* (variant: the entries written last to first)
RECURSIVE StringifyMessagesReversed(_)
StringifyMessagesReversed(ms) ==
    IF ms = << >> THEN << >>
    ELSE StringifyMessagesReversed(Tail(ms)) \o StringifyMessage(Head(ms))

RECURSIVE StringifyMessages(_)
StringifyMessages(ms) ==
    IF ms = << >> THEN << >>
    ELSE StringifyMessage(Head(ms)) \o StringifyMessages(Tail(ms))

\* JSON.stringify(chatHistory, null, 2)
JSONstringify(h) ==
    <<P("{"), P("messages"), P("[")>>
    \o StringifyMessages(h.messages)
    \o <<P("]"), P("gameId"), Str(<<h.gameId>>), P("sessionId"), Str(<<h.sessionId>>),
         P("createdAt"), Num(h.createdAt), P("updatedAt"), Num(h.updatedAt), P("}")>>

MsgTokens == Len(StringifyMessage(NoMsg))   \* tokens of one message
LogTokens == Len(JSONstringify(NoLog))      \* tokens of a log without messages

\* One message object at tokens at+1 .. at+MsgTokens of text.
IsMessageAt(text, at) ==
    /\ text[at + 1] = P("{")
    /\ text[at + 2] = P("role")
    /\ text[at + 3].k = "str"
    /\ text[at + 4] = P("content")
    /\ text[at + 5].k = "str"
    /\ text[at + 6] = P("timestamp")
    /\ text[at + 7].k = "num"
    /\ text[at + 8] = P("}")
MessageAt(text, at) ==
    Message(text[at + 3].s[1], text[at + 5].s, text[at + 7].n)

\* JSON values that are not logs: null, a number, an object without fields
JsonNull == [json |-> "null"]
JsonNumber(n) == [json |-> "number", n |-> n]
JsonEmptyObject == [json |-> "object"]
\* v.messages is an array (v is an object with a messages field)
HasMessages(v) == "messages" \in DOMAIN v

\* JSON.parse(fileContent): the value, or a SyntaxError (ok = FALSE) for text
\* that is not one complete JSON value.
JSONparse(text) ==
    LET n == Len(text)
        k == (n - LogTokens) \div MsgTokens
        t == 3 + MsgTokens * k
        wellFormed ==
            /\ n >= LogTokens
            /\ (n - LogTokens) % MsgTokens = 0
            /\ text[1] = P("{") /\ text[2] = P("messages") /\ text[3] = P("[")
            /\ \A i \in 1..k : IsMessageAt(text, 3 + MsgTokens * (i - 1))
            /\ text[t + 1] = P("]")
            /\ text[t + 2] = P("gameId") /\ text[t + 3].k = "str"
            /\ text[t + 4] = P("sessionId") /\ text[t + 5].k = "str"
            /\ text[t + 6] = P("createdAt") /\ text[t + 7].k = "num"
            /\ text[t + 8] = P("updatedAt") /\ text[t + 9].k = "num"
            /\ text[t + 10] = P("}")
    IN  IF text = <<P("null")>> THEN [ok |-> TRUE, value |-> JsonNull]
        ELSE IF n = 1 /\ text[1].k = "num"
        THEN [ok |-> TRUE, value |-> JsonNumber(text[1].n)]
        ELSE IF text = <<P("{"), P("}")>> THEN [ok |-> TRUE, value |-> JsonEmptyObject]
        ELSE IF wellFormed
        THEN [ok |-> TRUE,
              value |-> ChatHistory(
                  [i \in 1..k |-> MessageAt(text, 3 + MsgTokens * (i - 1))],
                  text[t + 3].s[1], text[t + 5].s[1], text[t + 7].n, text[t + 9].n)]
        ELSE [ok |-> FALSE, value |-> NoLog]

\* ------------------------------------------------------------ file system
NoFile == [exists |-> FALSE, ino |-> 0, data |-> << >>]

\* (variant: unlink that removes nothing)
UnlinkNothing(fs, path) == fs

\* unlink(path): the path names no file afterwards (ENOENT if it named none)
Unlink(fs, path) == [fs EXCEPT ![path] = NoFile]

\* write(fd, data) at offset 0 of a file that holds old: bytes of old beyond the
\* end of data stay where they are.
WriteAtZero(old, data) ==
    IF Len(data) >= Len(old) THEN data
    ELSE data \o SubSeq(old, Len(data) + 1, Len(old))

VARIABLES
    files,      \* path -> the file at that path: exists, inode, content
    dirs,       \* the directories that exist
    inodes,     \* the number of inodes created so far
    now,        \* Date.now()
    pc,         \* per caller: the await it is suspended at, or "idle"
    op,         \* per caller: the call it is running and its arguments
    loc,        \* per caller: the local variables of the running call
    hist,       \* path -> the calls completed on that path, in completion order
    nops,       \* the number of calls issued so far
    cachedGames,   \* gamesLoader.ts: the cached array, or NoGames (null)
    arrays,     \* the number of games arrays created so far
    gamesFile   \* the version of games.json on disk

vars == <<files, dirs, inodes, now, pc, op, loc, hist, nops,
          cachedGames, arrays, gamesFile>>
gamesVars == <<cachedGames, arrays, gamesFile>>


\* ------------------------------------------------------------ bookkeeping
NoOp == [name |-> "none", sessionId |-> "", gameId |-> "", body |-> NoBody,
         message |-> NoMsg, log |-> NoLog, started |-> 0]
InitLoc == [phase |-> "-",            \* which call of the route is running
            chatHistory |-> NoLog,    \* the route's chatHistory (chat.ts:107)
            work |-> NoLog,           \* chatHistory of appendMessage / saveChatHistory
            userMessage |-> NoMsg,
            assistantMessage |-> NoMsg,
            data |-> << >>,           \* the text writeFile is writing
            fd |-> 0,                 \* the inode writeFile has open
            request |-> << >>,        \* the messages given to the provider
            invoked |-> 0,            \* calls of the provider made
            completion |-> NoCompletion,   \* what the provider answered
            appends |-> 0,            \* appendMessage calls completed
            ioError |-> FALSE,        \* fs.writeFile has thrown
            overlapped |-> {},        \* the calls on this path that have overlapped
            pre |-> [state |-> "absent", messages |-> << >>, log |-> NoLog]]

PathOf(q) == getChatFilePath(op[q].sessionId, op[q].gameId)
Active(q) == pc[q] # "idle"

\* What is stored in a file: nothing, text that does not parse, a JSON value
\* that is not a log, or a log.
View(f) ==
    IF ~f.exists THEN [state |-> "absent", messages |-> << >>, log |-> NoLog]
    ELSE IF ~JSONparse(f.data).ok
    THEN [state |-> "unparsable", messages |-> << >>, log |-> NoLog]
    ELSE IF ~HasMessages(JSONparse(f.data).value)
    THEN [state |-> "other", messages |-> << >>, log |-> NoLog]
    ELSE [state |-> "log", messages |-> JSONparse(f.data).value.messages,
          log |-> JSONparse(f.data).value]

\* The call of caller p is over: it is recorded with its outcome.
Completed(p, l, status, out) ==
    [op |-> op[p], loc |-> l, status |-> status, out |-> out,
     post |-> View(files'[PathOf(p)]), at |-> now']

Finish(p, l, status, out) ==
    /\ hist' = [hist EXCEPT ![PathOf(p)] = Append(@, Completed(p, l, status, out))]
    /\ pc' = [pc EXCEPT ![p] = "idle"]
    /\ op' = [op EXCEPT ![p] = NoOp]
    /\ loc' = [loc EXCEPT ![p] = InitLoc]
    /\ UNCHANGED gamesVars

\* Caller p goes on to the await named by label with locals l.
Goto(p, label, l) ==
    /\ pc' = [pc EXCEPT ![p] = label]
    /\ loc' = [loc EXCEPT ![p] = l]
    /\ UNCHANGED <<op, hist>>
    /\ UNCHANGED gamesVars

\* Date.now() read when an await resumes: time may have passed since the last read.
Times == 0..MaxTime
Clock(t) == t \in {now, IF now < MaxTime THEN now + 1 ELSE now}

\* Caller p issues a call: calls that overlap on a path are marked.
Issue(p, name, s, g, body, m, h, label) ==
    LET path == getChatFilePath(s, g)
        others == {q \in Procs \ {p} : Active(q) /\ PathOf(q) = path}
    IN  /\ pc[p] = "idle"
        /\ nops' = nops + 1
        /\ op' = [op EXCEPT ![p] = [name |-> name, sessionId |-> s, gameId |-> g,
                                    body |-> body, message |-> m, log |-> h,
                                    started |-> nops + 1]]
        /\ pc' = [pc EXCEPT ![p] = label]
        /\ loc' = [q \in Procs |->
                     IF q = p
                     THEN [InitLoc EXCEPT !.overlapped = {op[o].started : o \in others},
                                          !.work = h,
                                          !.pre = View(files[path])]
                     ELSE IF q \in others
                     THEN [loc[q] EXCEPT !.overlapped = @ \cup {nops + 1}]
                     ELSE loc[q]]
        /\ UNCHANGED <<files, dirs, inodes, hist>>
        /\ UNCHANGED gamesVars

\* ------------------------------------------------------ fileStorage.ts
\* (variant: the ids of the fresh log exchanged)
loadChatHistorySwapped(s, g, f, t) ==
    IF f.exists /\ JSONparse(f.data).ok
    THEN JSONparse(f.data).value
    ELSE ChatHistory(<< >>, s, g, t, t)

\* (variant: a SyntaxError of JSON.parse is not caught)
loadChatHistoryNoCatch(s, g, f, t) ==
    IF f.exists
    THEN JSONparse(f.data).value
    ELSE ChatHistory(<< >>, g, s, t, t)

\* loadChatHistory, once readFile has completed on file f at time t
loadChatHistory(s, g, f, t) ==
    IF f.exists /\ JSONparse(f.data).ok
    THEN JSONparse(f.data).value
    ELSE ChatHistory(<< >>, g, s, t, t)

\* (variant: unshift instead of push)
PushFront(h, m) == [h EXCEPT !.messages = <<m>> \o @]

\* chatHistory.messages.push(message)
Push(h, m) == [h EXCEPT !.messages = Append(@, m)]

\* (variant: updatedAt is left as it was given)
StampedNot(h, t) == h

\* saveChatHistory once the directory exists: stamp, serialize, start writeFile
Stamped(h, t) == [h EXCEPT !.updatedAt = t]
BeginWrite(p, l, t) ==
    LET h == Stamped(l.work, t)
    IN  Goto(p, "open", [l EXCEPT !.work = h, !.data = JSONstringify(h)])

\* ----------------------------------------------------------- openai.ts
\* the messages array of getChatCompletion
RECURSIVE NotSystem(_)
NotSystem(ms) ==
    IF ms = << >> THEN << >>
    ELSE IF Head(ms).role # "system"
         THEN <<[role |-> Head(ms).role, content |-> Head(ms).content]>>
              \o NotSystem(Tail(ms))
         ELSE NotSystem(Tail(ms))

\* (variant: the history passed on without the filter)
CompletionMessagesUnfiltered(systemPrompt, chatHistory, userMessage) ==
    <<[role |-> "system", content |-> systemPrompt]>>
    \o [i \in 1..Len(chatHistory) |->
          [role |-> chatHistory[i].role, content |-> chatHistory[i].content]]
    \o <<[role |-> "user", content |-> userMessage]>>

CompletionMessages(systemPrompt, chatHistory, userMessage) ==
    <<[role |-> "system", content |-> systemPrompt]>>
    \o NotSystem(chatHistory)
    \o <<[role |-> "user", content |-> userMessage]>>

\* (variant: empty content is not checked)
CompletionFailedLax(c) == c.kind # "content"

\* completion.choices[0]?.message?.content is missing or empty, or create() threw
CompletionFailed(c) == c.kind # "content" \/ c.text = << >>

\* ------------------------------------------------------------- chat.ts
\* String.prototype.trim
RECURSIVE TrimStart(_)
TrimStart(str) ==
    IF str # << >> /\ Head(str) = " " THEN TrimStart(Tail(str)) ELSE str
RECURSIVE TrimEnd(_)
TrimEnd(str) ==
    IF str # << >> /\ str[Len(str)] = " "
    THEN TrimEnd(SubSeq(str, 1, Len(str) - 1)) ELSE str
Trim(str) == TrimEnd(TrimStart(str))

\* (variant: the text is stored as received)
UserMessageRaw(message, t) == Message("user", message, t)

\* chat.ts:110-114
UserMessage(message, t) == Message("user", Trim(message), t)

\* (variant: the text is not trimmed before it is tested)
InvalidMessageNoTrim(body) ==
    \/ body.type # "string"
    \/ body.str = << >>

\* !message || typeof message !== 'string' || message.trim() === ''
InvalidMessage(body) ==
    \/ body.type # "string"
    \/ body.str = << >>
    \/ Trim(body.str) = << >>

\* (variant: appendMessage(userMessage) is not awaited before the provider call)
AfterLoadNoAwait(p, l, h, t) ==
    Goto(p, "provider",
         [l EXCEPT !.chatHistory = h,
                   !.userMessage = UserMessage(op[p].body.str, t),
                   !.phase = "user",
                   !.invoked = @ + 1,
                   !.request = CompletionMessages(getGameById(op[p].gameId).systemPrompt,
                                                  h.messages, Trim(op[p].body.str))])

\* chat.ts:107-117: loadChatHistory has returned h at time t; the user message is
\* built and appendMessage(sessionId, gameId, userMessage) is awaited
AfterLoad(p, l, h, t) ==
    Goto(p, "readFile",
         [l EXCEPT !.chatHistory = h,
                   !.userMessage = UserMessage(op[p].body.str, t),
                   !.phase = "user"])

\* ---------------------------------------------------------------- calls
StartLoad(p, s, g) ==
    /\ Issue(p, "load", s, g, NoBody, NoMsg, NoLog, "readFile")
    /\ UNCHANGED now

StartSave(p, s, g) ==
    \E ms \in SavedMessages, t \in Times :
        /\ Clock(t)
        /\ now' = t
        /\ Issue(p, "save", s, g, NoBody, NoMsg, ChatHistory(ms, g, s, t, t), "access")

\* saveChatHistory(s, g, chatHistory) with any log: the ids the log carries are
\* the caller's choice
StartSaveLog(p, s, g) ==
    \E ms \in SavedMessages, t \in Times, ls \in Sessions, lg \in GameIds :
        /\ Clock(t)
        /\ now' = t
        /\ Issue(p, "save", s, g, NoBody, NoMsg, ChatHistory(ms, lg, ls, t, t), "access")

StartAppend(p, s, g) ==
    \E m \in AppendedMessages, t \in Times :
        /\ Clock(t)
        /\ now' = t
        /\ Issue(p, "append", s, g, NoBody, Message(m.role, m.content, t), NoLog, "readFile")

StartDelete(p, s, g) ==
    /\ Issue(p, "delete", s, g, NoBody, NoMsg, NoLog, "unlink")
    /\ UNCHANGED now

\* GET /api/chat/:gameId
StartGet(p, s, g) ==
    /\ Issue(p, "get", s, g, NoBody, NoMsg, NoLog, "getGame")
    /\ UNCHANGED now

\* POST /api/chat/:gameId with a message that passes validation
StartPost(p, s, g) ==
    \E body \in Bodies :
        /\ ~InvalidMessage(body)
        /\ Issue(p, "post", s, g, body, NoMsg, NoLog, "getGame")
        /\ UNCHANGED now

\* POST /api/chat/:gameId with a message that fails validation: 400, at once
RejectPost(p, s, g) ==
    \E body \in Bodies :
        LET path == getChatFilePath(s, g)
            call == [NoOp EXCEPT !.name = "post", !.sessionId = s, !.gameId = g,
                                 !.body = body, !.started = nops + 1]
        IN  /\ InvalidMessage(body)
            /\ pc[p] = "idle"
            /\ nops' = nops + 1
            /\ hist' = [hist EXCEPT ![path] = Append(@,
                          [op |-> call,
                           loc |-> [InitLoc EXCEPT !.pre = View(files[path])],
                           status |-> "400", out |-> NoLog,
                           post |-> View(files[path]), at |-> now])]
            /\ UNCHANGED <<files, dirs, inodes, now, pc, op, loc>>
            /\ UNCHANGED gamesVars

\* (variant: the error is not passed on, the call returns as if it had saved)
ThrewNot(p, l) ==
    Finish(p, l, IF op[p].name = "post" THEN "200" ELSE "ok", l.work)

\* (variant: the catch of the route sends nothing, the request stays open)
ThrewNoResponse(p, l) == Goto(p, "caught", l)

\* The caller's await on a call that threw: appendMessage and saveChatHistory
\* pass the error on; the route answers 500.
Threw(p, l) ==
    Finish(p, l, IF op[p].name = "post" THEN "500" ELSE "error", NoLog)

\* await getGameById(gameId) has returned
GetGameDone(p) ==
    /\ pc[p] = "getGame"
    /\ UNCHANGED <<files, dirs, inodes, now, nops>>
    /\ IF ~getGameById(op[p].gameId).found
       THEN Finish(p, loc[p], "404", NoLog)
       ELSE Goto(p, "readFile", [loc[p] EXCEPT !.phase = "load"])

\* await fs.readFile(filePath) has returned or thrown
\* (variant: a log built for a missing file is also written to the file)
ReadAndStore(p, h) ==
    IF ~files[PathOf(p)].exists /\ op[p].name \in {"load", "get"}
    THEN /\ files' = [files EXCEPT ![PathOf(p)] =
                        [exists |-> TRUE, ino |-> inodes + 1, data |-> JSONstringify(h)]]
         /\ dirs' = dirs \cup Prefixes(dirname(PathOf(p)))
         /\ inodes' = inodes + 1
    ELSE UNCHANGED <<files, dirs, inodes>>

\* What loadChatHistory does to storage: readFile only reads, and the catch
\* builds the empty log in memory.
ReadOnly(p, h) == UNCHANGED <<files, dirs, inodes>>

ReadFileDone(p) ==
    \E t \in Times :
        LET h == loadChatHistory(op[p].sessionId, op[p].gameId, files[PathOf(p)], t)
            l == loc[p]
        IN  /\ pc[p] = "readFile"
            /\ Clock(t)
            /\ now' = t
            /\ ReadOnly(p, h)
            /\ UNCHANGED nops
            /\ CASE op[p].name = "load" -> Finish(p, l, "ok", h)
                 [] op[p].name = "get" -> Finish(p, l, "200", h)
                 [] op[p].name = "post" /\ l.phase = "load" -> AfterLoad(p, l, h, t)
                 [] ~HasMessages(h) ->
                        \* chatHistory.messages.push: TypeError (fileStorage.ts:117)
                        Threw(p, l)
                 [] op[p].name = "append" ->
                        Goto(p, "access", [l EXCEPT !.work = Push(h, op[p].message)])
                 [] op[p].name = "post" /\ l.phase = "user" ->
                        Goto(p, "access", [l EXCEPT !.work = Push(h, l.userMessage)])
                 [] op[p].name = "post" /\ l.phase = "assistant" ->
                        Goto(p, "access", [l EXCEPT !.work = Push(h, l.assistantMessage)])

\* ensureDirectoryExists: await fs.access(dirPath) has returned or thrown
AccessDone(p) ==
    \E t \in Times :
        /\ pc[p] = "access"
        /\ Clock(t)
        /\ UNCHANGED <<files, dirs, inodes, nops>>
        /\ IF dirname(PathOf(p)) \in dirs
           THEN /\ now' = t
                /\ BeginWrite(p, loc[p], t)
           ELSE /\ t = now
                /\ UNCHANGED now
                /\ Goto(p, "mkdir", loc[p])

\* (variant: mkdir without recursive, EEXIST when the directory is there)
MkdirDoneExclusive(p) ==
    \E t \in Times :
        /\ pc[p] = "mkdir"
        /\ Clock(t)
        /\ now' = t
        /\ UNCHANGED <<files, inodes, nops>>
        /\ IF dirname(PathOf(p)) \in dirs
           THEN /\ UNCHANGED dirs
                /\ Threw(p, loc[p])
           ELSE /\ dirs' = dirs \cup Prefixes(dirname(PathOf(p)))
                /\ BeginWrite(p, loc[p], t)

\* ensureDirectoryExists: await fs.mkdir(dirPath, {recursive: true}) has returned
MkdirDone(p) ==
    \E t \in Times :
        /\ pc[p] = "mkdir"
        /\ Clock(t)
        /\ now' = t
        /\ dirs' = dirs \cup Prefixes(dirname(PathOf(p)))
        /\ UNCHANGED <<files, inodes, nops>>
        /\ BeginWrite(p, loc[p], t)

\* writeFile: the file is open for writing (created if missing, truncated)
OpenDone(p) ==
    LET path == PathOf(p)
        f == files[path]
    IN  /\ pc[p] = "open"
        /\ UNCHANGED <<dirs, now, nops>>
        /\ IF dirname(path) \notin dirs
           THEN /\ UNCHANGED <<files, inodes>>
                /\ Threw(p, loc[p])
           ELSE IF f.exists
           THEN /\ files' = [files EXCEPT ![path].data = << >>]
                /\ UNCHANGED inodes
                /\ Goto(p, "write", [loc[p] EXCEPT !.fd = f.ino])
           ELSE /\ inodes' = inodes + 1
                /\ files' = [files EXCEPT ![path] =
                               [exists |-> TRUE, ino |-> inodes + 1, data |-> << >>]]
                /\ Goto(p, "write", [loc[p] EXCEPT !.fd = inodes + 1])

\* writeFile throws (no space, no permission, ...): from open, with the file as
\* it was, or from write, with the file truncated
WriteFileFailed(p) ==
    /\ pc[p] \in {"open", "write"}
    /\ dirname(PathOf(p)) \in dirs
    /\ UNCHANGED <<files, dirs, inodes, now, nops>>
    /\ Threw(p, [loc[p] EXCEPT !.ioError = TRUE, !.fd = 0, !.data = << >>])

\* writeFile: the text is written and the file closed; saveChatHistory returns
WriteDone(p) ==
    LET path == PathOf(p)
        f == files[path]
        l == [loc[p] EXCEPT !.fd = 0, !.data = << >>]
        la == [l EXCEPT !.appends = @ + 1]
    IN  /\ pc[p] = "write"
        /\ files' = IF f.exists /\ f.ino = loc[p].fd
                    THEN [files EXCEPT ![path].data = WriteAtZero(f.data, loc[p].data)]
                    ELSE files      \* the file was unlinked: the inode is gone
        /\ UNCHANGED <<dirs, inodes, now, nops>>
        /\ CASE op[p].name = "save" -> Finish(p, l, "ok", l.work)
             [] op[p].name = "append" -> Finish(p, la, "ok", l.work)
             [] op[p].name = "post" /\ l.phase = "user" ->
                    \* chat.ts:121-125: getChatCompletion builds the request
                    Goto(p, "provider",
                         [la EXCEPT !.invoked = @ + 1,
                                    !.request = CompletionMessages(
                                        getGameById(op[p].gameId).systemPrompt,
                                        l.chatHistory.messages,
                                        l.userMessage.content)])
             [] op[p].name = "post" /\ l.phase = "assistant" ->
                    Finish(p, la, "200", l.work)

\* (variant: when the completion fails the stored log is put back as it was loaded)
ProviderDoneRollback(p) ==
    \E c \in Completions, t \in Times :
        /\ pc[p] = "provider"
        /\ Clock(t)
        /\ UNCHANGED <<dirs, inodes, nops>>
        /\ IF ~CompletionFailed(c)
           THEN /\ now' = t
                /\ UNCHANGED files
                /\ Goto(p, "readFile",
                        [loc[p] EXCEPT !.assistantMessage = Message("assistant", c.text, t),
                                       !.completion = c,
                                       !.phase = "assistant"])
           ELSE /\ t = now
                /\ UNCHANGED now
                /\ files' = [files EXCEPT ![PathOf(p)].data =
                                JSONstringify(loc[p].chatHistory)]
                /\ Threw(p, [loc[p] EXCEPT !.completion = c])

\* (variant: a failed completion is requested once more)
ProviderDoneRetry(p) ==
    \E c \in Completions, t \in Times :
        /\ pc[p] = "provider"
        /\ Clock(t)
        /\ UNCHANGED <<files, dirs, inodes, nops>>
        /\ IF ~CompletionFailed(c)
           THEN /\ now' = t
                /\ Goto(p, "readFile",
                        [loc[p] EXCEPT !.assistantMessage = Message("assistant", c.text, t),
                                       !.completion = c,
                                       !.phase = "assistant"])
           ELSE /\ t = now
                /\ UNCHANGED now
                /\ IF loc[p].invoked < 2
                   THEN Goto(p, "provider", [loc[p] EXCEPT !.invoked = @ + 1])
                   ELSE Threw(p, [loc[p] EXCEPT !.completion = c])

\* await openai.chat.completions.create(...) has returned or thrown
ProviderDone(p) ==
    \E c \in Completions, t \in Times :
        /\ pc[p] = "provider"
        /\ Clock(t)
        /\ UNCHANGED <<files, dirs, inodes, nops>>
        /\ IF ~CompletionFailed(c)
           THEN /\ now' = t
                /\ Goto(p, "readFile",
                        [loc[p] EXCEPT !.assistantMessage = Message("assistant", c.text, t),
                                       !.completion = c,
                                       !.phase = "assistant"])
           ELSE /\ t = now
                /\ UNCHANGED now
                /\ Threw(p, [loc[p] EXCEPT !.completion = c])

\* (variant: unlink waits until no other call is running, as under a global lock)
UnlinkDoneLocked(p) ==
    /\ pc[p] = "unlink"
    /\ \A q \in Procs \ {p} : pc[q] = "idle"
    /\ files' = Unlink(files, PathOf(p))
    /\ UNCHANGED <<dirs, inodes, now, nops>>
    /\ Finish(p, loc[p], "ok", NoLog)

\* deleteChatHistory: await fs.unlink(filePath) has returned or thrown
UnlinkDone(p) ==
    /\ pc[p] = "unlink"
    /\ files' = Unlink(files, PathOf(p))
    /\ UNCHANGED <<dirs, inodes, now, nops>>
    /\ Finish(p, loc[p], "ok", NoLog)

\* ------------------------------------------------------ gamesLoader.ts
\* A call of loadGames or reloadGames is over: it is recorded with the array it
\* returned, whether it read the file, and the cache it left.
GamesCompleted(call, out, read) ==
    [op |-> call, status |-> "ok", out |-> out, read |-> read,
     cached |-> cachedGames', done |-> nops']

\* cachedGames = games (gamesLoader.ts:66)
CachedAfterRead(games) == games

\* loadGames(): the cached array at once if there is one, else readFile is awaited
StartLoadGames(p) ==
    LET call == [NoOp EXCEPT !.name = "loadGames", !.started = nops + 1]
    IN  /\ pc[p] = "idle"
        /\ nops' = nops + 1
        /\ UNCHANGED <<files, dirs, inodes, now, loc, gamesVars>>
        /\ IF cachedGames # NoGames
           THEN /\ hist' = [hist EXCEPT ![GAMES_CONFIG_PATH] =
                               Append(@, GamesCompleted(call, cachedGames, FALSE))]
                /\ UNCHANGED <<pc, op>>
           ELSE /\ pc' = [pc EXCEPT ![p] = "readGames"]
                /\ op' = [op EXCEPT ![p] = call]
                /\ UNCHANGED hist

\* reloadGames(): the cache is cleared, then loadGames()
StartReloadGames(p) ==
    /\ pc[p] = "idle"
    /\ nops' = nops + 1
    /\ cachedGames' = NoGames
    /\ pc' = [pc EXCEPT ![p] = "readGames"]
    /\ op' = [op EXCEPT ![p] = [NoOp EXCEPT !.name = "reloadGames", !.started = nops + 1]]
    /\ UNCHANGED <<files, dirs, inodes, now, loc, hist, arrays, gamesFile>>

\* loadGames: await fs.readFile(GAMES_CONFIG_PATH) has returned; the text is
\* parsed into a new array, which is cached and returned
ReadGamesDone(p) ==
    LET games == [id |-> arrays + 1, version |-> gamesFile]
    IN  /\ pc[p] = "readGames"
        /\ UNCHANGED <<files, dirs, inodes, now, loc, nops, gamesFile>>
        /\ arrays' = arrays + 1
        /\ cachedGames' = CachedAfterRead(games)
        /\ hist' = [hist EXCEPT ![GAMES_CONFIG_PATH] =
                       Append(@, GamesCompleted(op[p], games, TRUE))]
        /\ pc' = [pc EXCEPT ![p] = "idle"]
        /\ op' = [op EXCEPT ![p] = NoOp]

\* games.json is modified while the server is running
EditGamesFile ==
    /\ gamesFile = 1
    /\ gamesFile' = 2
    /\ UNCHANGED <<files, dirs, inodes, now, pc, op, loc, hist, nops, cachedGames, arrays>>

\* --------------------------------------------------------- specifications
\* What a run starts from: user_data as an earlier run of the server left it.
StoredLog ==
    ChatHistory(<<Message("system", <<"y", "o">>, 0), Message("user", <<"h", "i">>, 0)>>,
                "fantasy-quest", "s1", 0, 0)
InitialFiles ==
    {NoFile,
     [exists |-> TRUE, ino |-> 1, data |-> JSONstringify(StoredLog)],
     \* a write that a crash cut short
     [exists |-> TRUE, ino |-> 1, data |-> SubSeq(JSONstringify(StoredLog), 1, 5)]}

Init ==
    /\ \E f \in InitialFiles :
        /\ files = [path \in Paths |->
                      IF path = getChatFilePath("s1", "fantasy-quest") THEN f ELSE NoFile]
        /\ dirs = IF f.exists
                  THEN Prefixes(dirname(getChatFilePath("s1", "fantasy-quest")))
                  ELSE {USER_DATA_DIR}
        /\ inodes = IF f.exists THEN 1 ELSE 0
    /\ now = 0
    /\ pc = [p \in Procs |-> "idle"]
    /\ op = [p \in Procs |-> NoOp]
    /\ loc = [p \in Procs |-> InitLoc]
    /\ hist = [path \in Paths |-> << >>]
    /\ nops = 0
    /\ cachedGames = StartupGames
    /\ arrays = 1
    /\ gamesFile = 1

Storage(p, s, g) ==
    \/ StartLoad(p, s, g)
    \/ StartSave(p, s, g)
    \/ StartAppend(p, s, g)
    \/ StartDelete(p, s, g)

Routes(p, s) ==
    \/ \E g \in GameIds : StartGet(p, s, g)
    \/ \E g \in GameIds : StartPost(p, s, g)
    \/ RejectPost(p, s, "fantasy-quest")

\* the awaits of fileStorage.ts
StorageSteps(p) ==
    \/ ReadFileDone(p)
    \/ AccessDone(p)
    \/ MkdirDone(p)
    \/ OpenDone(p)
    \/ WriteDone(p)
    \/ UnlinkDone(p)

\* the awaits of chat.ts
RouteSteps(p) ==
    \/ GetGameDone(p)
    \/ ProviderDone(p)

\* Two callers use the storage functions on one key at once.
Next ==
    \/ /\ nops < MaxOps
       /\ \E p \in Procs : Storage(p, "s1", "fantasy-quest")
    \/ \E p \in Procs : StorageSteps(p)

Spec == Init /\ [][Next]_vars

\* One caller of the storage functions that awaits each call before the next.
SeqNext ==
    \/ /\ nops < MaxSeqOps
       /\ Storage("p1", "s1", "fantasy-quest")
    \/ StorageSteps("p1")

SeqSpec == Init /\ [][SeqNext]_vars

\* One client of the chat routes that awaits each answer before the next request;
\* between requests it may use the storage functions on the same key.
ChatNext ==
    \/ /\ nops < MaxChatOps
       /\ \/ Routes("p1", "s1")
          \/ Storage("p1", "s1", "fantasy-quest")
    \/ StorageSteps("p1")
    \/ RouteSteps("p1")

ChatSpec == Init /\ [][ChatNext]_vars

\* One caller of the storage functions that awaits each call and gives
\* saveChatHistory any log.
ApiNext ==
    \/ /\ nops < MaxApiOps
       /\ \/ StartLoad("p1", "s1", "fantasy-quest")
          \/ StartSaveLog("p1", "s1", "fantasy-quest")
          \/ StartAppend("p1", "s1", "fantasy-quest")
          \/ StartDelete("p1", "s1", "fantasy-quest")
    \/ StorageSteps("p1")

ApiSpec == Init /\ [][ApiNext]_vars

\* A client of the respond route on one key, and a second caller on another key.
\* The I/O of the second caller completes in the end; nothing is assumed of the
\* first, whose request may stay suspended for ever.
KeysStart ==
    \/ StartPost("p1", "s1", "fantasy-quest")
    \/ StartLoad("p2", "s2", "fantasy-quest")
    \/ StartAppend("p2", "s2", "fantasy-quest")
    \/ StartDelete("p2", "s2", "fantasy-quest")
    \/ StartPost("p2", "s2", "fantasy-quest")

KeysNext ==
    \/ /\ nops < MaxKeysOps
       /\ KeysStart
    \/ \E p \in Procs : StorageSteps(p)
    \/ \E p \in Procs : RouteSteps(p)

KeysSpec ==
    /\ Init
    /\ [][KeysNext]_vars
    /\ WF_vars(StorageSteps("p2") \/ RouteSteps("p2"))

\* Two sessions at once: one uses every storage function and the respond route
\* on its key, the other reads and appends on its own key.
IsoStart ==
    \/ Storage("p1", "s1", "fantasy-quest")
    \/ StartPost("p1", "s1", "fantasy-quest")
    \/ StartLoad("p2", "s2", "fantasy-quest")
    \/ StartGet("p2", "s2", "fantasy-quest")
    \/ StartAppend("p2", "s2", "fantasy-quest")

IsoNext ==
    \/ /\ nops < MaxIsoOps
       /\ IsoStart
    \/ \E p \in Procs : StorageSteps(p)
    \/ \E p \in Procs : RouteSteps(p)

IsoSpec == Init /\ [][IsoNext]_vars

\* Two callers of gamesLoader.ts, from the module as imported (nothing cached).
GamesInit ==
    /\ files = [path \in Paths |-> NoFile]
    /\ dirs = {USER_DATA_DIR}
    /\ inodes = 0
    /\ now = 0
    /\ pc = [p \in Procs |-> "idle"]
    /\ op = [p \in Procs |-> NoOp]
    /\ loc = [p \in Procs |-> InitLoc]
    /\ hist = [path \in {GAMES_CONFIG_PATH} |-> << >>]
    /\ nops = 0
    /\ cachedGames = NoGames
    /\ arrays = 0
    /\ gamesFile = 1

GamesNext ==
    \/ /\ nops < MaxGamesOps
       /\ \E p \in Procs : StartLoadGames(p) \/ StartReloadGames(p)
    \/ \E p \in Procs : ReadGamesDone(p)
    \/ EditGamesFile

GamesSpec == GamesInit /\ [][GamesNext]_vars

\* Two callers load logs with ids of any form, from an empty store.
PathLocations == {getChatFilePath(s, g) : s \in PathIds, g \in PathIds}
PathInit ==
    /\ files = [path \in PathLocations |-> NoFile]
    /\ dirs = {USER_DATA_DIR}
    /\ inodes = 0
    /\ now = 0
    /\ pc = [p \in Procs |-> "idle"]
    /\ op = [p \in Procs |-> NoOp]
    /\ loc = [p \in Procs |-> InitLoc]
    /\ hist = [path \in PathLocations |-> << >>]
    /\ nops = 0
    /\ cachedGames = StartupGames
    /\ arrays = 1
    /\ gamesFile = 1

PathNext ==
    \/ /\ nops < MaxPathOps
       /\ \E p \in Procs, s \in PathIds, g \in PathIds : StartLoad(p, s, g)
    \/ \E p \in Procs : ReadFileDone(p)

PathSpec == PathInit /\ [][PathNext]_vars

\* Two clients of the chat routes at once, on the same key or on two keys.
RespondSteps(p) ==
    \/ GetGameDone(p)
    \/ ReadFileDone(p)
    \/ AccessDone(p)
    \/ MkdirDone(p)
    \/ OpenDone(p)
    \/ WriteDone(p)
    \/ ProviderDone(p)

RespondNext ==
    \/ /\ nops < MaxRespondOps
       /\ \E p \in Procs, s \in Sessions :
             \/ StartPost(p, s, "fantasy-quest")
             \/ StartGet(p, s, "fantasy-quest")
    \/ \E p \in Procs : RespondSteps(p)

RespondSpec == Init /\ [][RespondNext]_vars


\* One client of the respond route and of the storage functions, on a disk where
\* a write may fail.
FailNext ==
    \/ /\ nops < MaxFailOps
       /\ \/ StartPost("p1", "s1", "fantasy-quest")
          \/ StartAppend("p1", "s1", "fantasy-quest")
          \/ StartSave("p1", "s1", "fantasy-quest")
          \/ StartLoad("p1", "s1", "fantasy-quest")
    \/ RespondSteps("p1")
    \/ WriteFileFailed("p1")

FailSpec == Init /\ [][FailNext]_vars


\* One caller on a key whose chat.json holds JSON that is not a log (written by
\* hand or by another program).
ForeignFiles ==
    {[exists |-> TRUE, ino |-> 1, data |-> <<P("null")>>],
     [exists |-> TRUE, ino |-> 1, data |-> <<Num(0)>>],
     [exists |-> TRUE, ino |-> 1, data |-> <<P("{"), P("}")>>]}

CorruptInit ==
    /\ \E f \in ForeignFiles :
          files = [path \in Paths |->
                     IF path = getChatFilePath("s1", "fantasy-quest") THEN f ELSE NoFile]
    /\ dirs = Prefixes(dirname(getChatFilePath("s1", "fantasy-quest")))
    /\ inodes = 1
    /\ now = 0
    /\ pc = [p \in Procs |-> "idle"]
    /\ op = [p \in Procs |-> NoOp]
    /\ loc = [p \in Procs |-> InitLoc]
    /\ hist = [path \in Paths |-> << >>]
    /\ nops = 0
    /\ cachedGames = StartupGames
    /\ arrays = 1
    /\ gamesFile = 1

CorruptNext ==
    \/ /\ nops < MaxCorruptOps
       /\ \/ StartLoad("p1", "s1", "fantasy-quest")
          \/ StartAppend("p1", "s1", "fantasy-quest")
          \/ StartSave("p1", "s1", "fantasy-quest")
          \/ StartGet("p1", "s1", "fantasy-quest")
    \/ GetGameDone("p1")
    \/ ReadFileDone("p1")
    \/ AccessDone("p1")
    \/ OpenDone("p1")
    \/ WriteDone("p1")

CorruptSpec == CorruptInit /\ [][CorruptNext]_vars

\* Two callers that save to the same key, so that both run
\* ensureDirectoryExists on the same directory.
DirSteps(p) == AccessDone(p) \/ MkdirDone(p) \/ OpenDone(p) \/ WriteDone(p)

DirNext ==
    \/ /\ nops < MaxDirOps
       /\ \E p \in Procs : StartSave(p, "s1", "fantasy-quest")
    \/ \E p \in Procs : DirSteps(p)

DirSpec == Init /\ [][DirNext]_vars

\* One client of the routes; every storage call and every provider call that
\* is awaited returns in the end, with a result or with an error.
LiveNext ==
    \/ /\ nops < MaxLiveOps
       /\ Routes("p1", "s1")
    \/ RespondSteps("p1")
    \/ WriteFileFailed("p1")

LiveSpec ==
    /\ Init
    /\ [][LiveNext]_vars
    /\ WF_vars(RespondSteps("p1") \/ WriteFileFailed("p1"))

\* One caller appends while another deletes the key and loads it.
DelNext ==
    \/ /\ nops < MaxDelOps
       /\ \/ StartAppend("p1", "s1", "fantasy-quest")
          \/ StartDelete("p2", "s1", "fantasy-quest")
          \/ StartLoad("p2", "s1", "fantasy-quest")
    \/ \E p \in Procs : StorageSteps(p)

DelSpec == Init /\ [][DelNext]_vars

\* ------------------------------------------------------------- properties
Busy(path) == \E q \in Procs : Active(q) /\ PathOf(q) = path
IsIn(m, ms) == \E i \in 1..Len(ms) : ms[i] = m
\* Exactly two calls have been made on the path, a and b, they overlapped, both
\* are over and both succeeded.
ConcurrentPair(path, a, b) ==
    /\ ~Busy(path)
    /\ Len(hist[path]) = 2
    /\ \A i \in 1..2 : hist[path][i].status = "ok"
    /\ \E i, j \in 1..2 :
        /\ i # j
        /\ hist[path][i].op.name = a
        /\ hist[path][j].op.name = b
        /\ hist[path][i].loc.overlapped = {hist[path][j].op.started}
        /\ hist[path][j].loc.overlapped = {hist[path][i].op.started}
\* Of the calls completed on the path, the one that was issued first.
FirstIssued(path) ==
    CHOOSE e \in {hist[path][i] : i \in 1..Len(hist[path])} :
        \A i \in 1..Len(hist[path]) : e.op.started <= hist[path][i].op.started
Called(path, a) ==
    CHOOSE e \in {hist[path][i] : i \in 1..Len(hist[path])} : e.op.name = a

\* C1: when two appendMessage calls on one key overlap and both succeed, the
\* stored log holds both messages: it is at least 2 longer than it was before.
C1_NoLostUpdate ==
    \A path \in Paths :
        ConcurrentPair(path, "append", "append") =>
            LET stored == View(files[path])
            IN  /\ stored.state = "log"
                /\ Len(stored.messages) >= Len(FirstIssued(path).loc.pre.messages) + 2
                /\ \A i \in 1..2 : IsIn(hist[path][i].op.message, stored.messages)

\* C2: a loadChatHistory that overlaps a saveChatHistory on the same key returns
\* the messages stored before the save or the messages being saved.
C2_AtomicSave ==
    \A path \in Paths :
        ConcurrentPair(path, "load", "save") =>
            Called(path, "load").out.messages \in
                {Called(path, "save").loc.pre.messages,
                 Called(path, "save").op.log.messages}

\* The calls completed on the one key of a caller that awaits each call.
Key == getChatFilePath("s1", "fantasy-quest")
Done == hist[Key]
\* The first k completed calls are successful appendMessage calls.
AppendsOnly(k) == \A j \in 1..k : Done[j].op.name = "append" /\ Done[j].status = "ok"
Appended(k) == [j \in 1..k |-> Done[j].op.message]
\* Call i + 1 is a loadChatHistory that followed call i.
LoadFollows(i) == i + 1 <= Len(Done) /\ Done[i + 1].op.name = "load"

\* C3: n appendMessage calls made one after the other on a key that had no stored
\* record: the log the last one returns, and the log a loadChatHistory after it
\* returns, hold exactly the n messages, in the order of the calls.
C3_SequentialAppends ==
    \A n \in 1..Len(Done) :
        (Done[1].loc.pre.state = "absent" /\ AppendsOnly(n)) =>
            /\ Done[n].out.messages = Appended(n)
            /\ LoadFollows(n) => Done[n + 1].out.messages = Appended(n)
C3_Witness ==
    /\ Len(Done) = 3
    /\ Done[1].loc.pre.state = "absent"
    /\ AppendsOnly(2)
    /\ Done[1].op.message # Done[2].op.message
    /\ LoadFollows(2)

\* C4: loadChatHistory on a key with no stored record returns a log without
\* messages that carries the arguments as sessionId and gameId, with
\* createdAt = updatedAt.
C4_LoadOfAbsent ==
    \A i \in 1..Len(Done) :
        (Done[i].op.name = "load" /\ Done[i].loc.pre.state = "absent") =>
            /\ Done[i].status = "ok"
            /\ Done[i].out.messages = << >>
            /\ Done[i].out.sessionId = Done[i].op.sessionId
            /\ Done[i].out.gameId = Done[i].op.gameId
            /\ Done[i].out.createdAt = Done[i].out.updatedAt
C4_Witness ==
    \E i \in 1..Len(Done) :
        /\ Done[i].op.name = "load"
        /\ Done[i].loc.pre.state = "absent"
        /\ Done[i].out.createdAt > 0

\* C5: loadChatHistory right after a successful saveChatHistory(s, g, L) returns
\* the messages of L: as many, in the same order, each with the same role,
\* content and timestamp.
C5_RoundTrip ==
    \A i \in 1..Len(Done) :
        (Done[i].op.name = "save" /\ Done[i].status = "ok" /\ LoadFollows(i)) =>
            Done[i + 1].out.messages = Done[i].op.log.messages
C5_Witness ==
    \E i \in 1..Len(Done) :
        /\ Done[i].op.name = "save"
        /\ Done[i].status = "ok"
        /\ LoadFollows(i)
        /\ Len(Done[i].op.log.messages) = 2
        /\ Done[i].loc.pre.messages # Done[i].op.log.messages

\* C6: deleteChatHistory completes without error whatever was stored, and a
\* loadChatHistory right after it returns a log without messages.
C6_Delete ==
    \A i \in 1..Len(Done) :
        Done[i].op.name = "delete" =>
            /\ Done[i].status = "ok"
            /\ Done[i].post.state = "absent"
            /\ LoadFollows(i) => Done[i + 1].out.messages = << >>
C6_Witness ==
    /\ Len(Done) = 3
    /\ Done[1].op.name = "delete"
    /\ Done[1].loc.pre.state = "log"
    /\ Done[1].loc.pre.messages # << >>
    /\ Done[2].op.name = "delete"
    /\ LoadFollows(2)

\* C7: with stored content that does not parse, loadChatHistory does not fail
\* and returns what it returns for a key without record (no messages, the
\* arguments as ids, createdAt = updatedAt = now), and an appendMessage after it
\* succeeds and yields a log with exactly the one new message.
C7_Unparsable ==
    \A i \in 1..Len(Done) :
        (Done[i].op.name = "load" /\ Done[i].loc.pre.state = "unparsable") =>
            /\ Done[i].status = "ok"
            /\ Done[i].out = ChatHistory(<< >>, Done[i].op.gameId, Done[i].op.sessionId,
                                         Done[i].at, Done[i].at)
            /\ (i + 1 <= Len(Done) /\ Done[i + 1].op.name = "append") =>
                /\ Done[i + 1].status = "ok"
                /\ Done[i + 1].out.messages = <<Done[i + 1].op.message>>
                /\ Done[i + 1].post.state = "log"
                /\ Done[i + 1].post.messages = <<Done[i + 1].op.message>>
C7_Witness ==
    \E i \in 1..Len(Done) :
        /\ Done[i].op.name = "load"
        /\ Done[i].loc.pre.state = "unparsable"
        /\ Done[i].at > 0
        /\ i + 1 <= Len(Done)
        /\ Done[i + 1].op.name = "append"
        /\ Done[i + 1].status = "ok"

\* C8: the request given to the provider is one system entry with the game's
\* systemPrompt, then every message of the loaded log whose role is not system,
\* in stored order, then one user entry with the trimmed text; there is no other
\* system entry.
RequestInOrder(call, l) ==
    LET req == l.request
        loaded == l.chatHistory.messages
        keep == {i \in 1..Len(loaded) : loaded[i].role # "system"}
        rank(i) == Cardinality({j \in keep : j <= i})
    IN  /\ loaded = l.pre.messages
        /\ Len(req) = Cardinality(keep) + 2
        /\ req[1] = [role |-> "system", content |-> SystemPrompt(call.gameId)]
        /\ \A i \in keep :
              req[1 + rank(i)] = [role |-> loaded[i].role, content |-> loaded[i].content]
        /\ req[Len(req)] = [role |-> "user", content |-> Trim(call.body.str)]
        /\ \A k \in 2..Len(req) : req[k].role # "system"
C8_ProviderRequest ==
    /\ \A p \in Procs : loc[p].invoked > 0 => RequestInOrder(op[p], loc[p])
    /\ \A i \in 1..Len(Done) :
          Done[i].loc.invoked > 0 => RequestInOrder(Done[i].op, Done[i].loc)
C8_Witness ==
    \E p \in Procs :
        /\ pc[p] = "provider"
        /\ \E i, j \in 1..Len(loc[p].pre.messages) :
              /\ loc[p].pre.messages[i].role = "system"
              /\ loc[p].pre.messages[j].role # "system"
        /\ Trim(op[p].body.str) # op[p].body.str

\* C9: a respond call that succeeds, on a key whose stored log is L, makes two
\* appends, the user message and then the assistant message: the stored log
\* afterwards is L, the user message, the assistant message, and the two messages
\* answered are these (the trimmed text, the provider's text).
C9_SuccessfulRespond ==
    \A i \in 1..Len(Done) :
        (Done[i].op.name = "post" /\ Done[i].status = "200") =>
            LET l == Done[i].loc
            IN  /\ l.appends = 2
                /\ l.invoked = 1
                /\ l.userMessage.role = "user"
                /\ l.userMessage.content = Trim(Done[i].op.body.str)
                /\ l.assistantMessage.role = "assistant"
                /\ l.completion.kind = "content"
                /\ l.assistantMessage.content = l.completion.text
                /\ Done[i].post.state = "log"
                /\ Done[i].post.messages
                     = l.pre.messages \o <<l.userMessage, l.assistantMessage>>
C9_Witness ==
    \E i \in 1..Len(Done) :
        /\ Done[i].op.name = "post"
        /\ Done[i].status = "200"
        /\ Done[i].loc.pre.state = "log"
        /\ Done[i].loc.pre.messages # << >>
        /\ Done[i].loc.assistantMessage.timestamp > Done[i].loc.userMessage.timestamp

\* C10: when the provider fails (an error, or no content), respond fails, one
\* append has been made (the user message), no assistant message is stored and
\* nothing is rolled back: a loadChatHistory after it returns the earlier log
\* and one new message, the user's.
ProviderFailedIn(e) ==
    /\ e.op.name = "post"
    /\ e.loc.invoked = 1
    /\ e.loc.completion.kind = "apierror" \/ e.loc.completion.text = << >>
BadText(body) ==
    \/ body.type # "string"
    \/ \A i \in 1..Len(body.str) : body.str[i] = " "

\* C11: a respond call with a message that is missing, not a string, empty or
\* only whitespace is answered 400 in the step that receives it: no call is ever
\* suspended with such a message (storage is not read, the provider not invoked),
\* and the step leaves files and directories as they were.
C11_InvalidMessage ==
    [][/\ \A p \in Procs : op'[p].name = "post" => ~BadText(op'[p].body)
       /\ \A path \in Paths : \A i \in 1..Len(hist'[path]) :
             (/\ i > Len(hist[path])
              /\ hist'[path][i].op.name = "post"
              /\ BadText(hist'[path][i].op.body)) =>
                /\ hist'[path][i].status = "400"
                /\ hist'[path][i].loc.invoked = 0
                /\ hist'[path][i].loc.appends = 0
                /\ hist'[path][i].post = hist'[path][i].loc.pre
                /\ files' = files
                /\ dirs' = dirs
                /\ inodes' = inodes
                /\ pc' = pc]_vars
C11_Witness ==
    \E i, j \in 1..Len(Done) :
        /\ Done[i].op.name = "post"
        /\ Done[i].op.body = [type |-> "string", str |-> <<" ">>]
        /\ Done[i].status = "400"
        /\ Done[i].loc.pre.messages # << >>
        /\ View(files[Key]) = Done[i].loc.pre
        /\ Done[j].op.name = "post"
        /\ Done[j].op.body.type = "number"
        /\ Done[j].status = "400"

UserCommitFirst(name, at, l) ==
    name = "post" =>
        /\ l.invoked > 0 => l.appends >= 1
        /\ at = "provider" => (l.phase = "user" /\ l.appends = 1 /\ l.invoked = 1)
        /\ (l.phase = "user" /\ at \notin {"provider", "idle"}) =>
              (l.appends = 0 /\ l.invoked = 0)
        /\ (l.phase = "assistant" /\ at # "idle") =>
              (l.appends = 1 /\ l.invoked = 1 /\ l.assistantMessage # NoMsg)
        /\ l.appends = 2 => (l.invoked = 1 /\ at = "idle")

PhaseOf(at, l) ==
    IF at = "getGame" \/ l.phase = "load" THEN "Loading"
    ELSE IF at = "provider" THEN "AwaitingProvider"
    ELSE IF l.phase = "user" THEN "PersistingUser"
    ELSE "PersistingAssistant"
PhaseRank(ph) ==
    CASE ph = "Loading" -> 1
      [] ph = "PersistingUser" -> 2
      [] ph = "AwaitingProvider" -> 3
      [] ph = "PersistingAssistant" -> 4
LastOf(h) == h[Len(h)]

LoadsAndAppends(k) ==
    /\ Done[1].loc.pre.state # "unparsable"
    /\ \A j \in 1..k : Done[j].op.name \in {"load", "append"} /\ Done[j].status = "ok"

\* C15: over a sequence of loadChatHistory and appendMessage calls on a key, every
\* log returned and every record persisted carries the createdAt of the first
\* log returned for the key.
C15_CreatedAtFixed ==
    \A k \in 1..Len(Done) :
        LoadsAndAppends(k) =>
            /\ Done[k].out.createdAt = Done[1].out.createdAt
            /\ Done[k].post.state = "log" =>
                  Done[k].post.log.createdAt = Done[1].out.createdAt

\* C16: a successful saveChatHistory (also the one inside appendMessage) writes
\* the log with updatedAt set to the time read just before the write, whatever
\* updatedAt the log had; and, the clock never going back, every log returned by
\* loadChatHistory and every log persisted by appendMessage has
\* updatedAt >= createdAt.
C16_UpdatedAt ==
    \A i \in 1..Len(Done) :
        Done[i].status = "ok" =>
            /\ Done[i].op.name \in {"save", "append"} =>
                  /\ Done[i].out.updatedAt = Done[i].at
                  /\ Done[i].post.state = "log"
                  /\ Done[i].post.log.updatedAt = Done[i].at
            /\ Done[i].op.name \in {"load", "append"} =>
                  Done[i].out.updatedAt >= Done[i].out.createdAt
            /\ Done[i].op.name = "append" =>
                  Done[i].post.log.updatedAt >= Done[i].post.log.createdAt
C16_Witness ==
    \E i \in 1..Len(Done) :
        /\ Done[i].op.name = "save"
        /\ Done[i].status = "ok"
        /\ Done[i].out.updatedAt > Done[i].op.log.updatedAt
        /\ LoadFollows(i)
        /\ Done[i + 1].out.updatedAt > Done[i + 1].out.createdAt
        /\ i + 2 <= Len(Done)
        /\ Done[i + 2].op.name = "append"
        /\ Done[i + 2].status = "ok"

IsPrefix(a, b) == Len(a) <= Len(b) /\ SubSeq(b, 1, Len(a)) = a
\* Only appendMessage calls have been made on the path.
OnlyAppends(path) ==
    /\ \A i \in 1..Len(hist[path]) : hist[path][i].op.name = "append"
    /\ \A q \in Procs : (Active(q) /\ PathOf(q) = path) => op[q].name = "append"

\* C17: with only appendMessage calls made on a key, in any interleaving, the
\* messages of the stored record seen earlier (when a call was issued, when a call
\* returned) are a prefix of the messages seen later (when a later call returned,
\* now).
C17_AppendOnly ==
    \A path \in Paths :
        OnlyAppends(path) =>
            \A j \in 1..Len(hist[path]) :
                LET e == hist[path][j]
                    stored == View(files[path])
                IN  /\ (e.loc.pre.state = "log" /\ e.post.state = "log") =>
                          IsPrefix(e.loc.pre.messages, e.post.messages)
                    /\ \A i \in 1..(j - 1) :
                          (hist[path][i].post.state = "log" /\ e.post.state = "log") =>
                              IsPrefix(hist[path][i].post.messages, e.post.messages)
                    /\ (e.post.state = "log" /\ stored.state = "log") =>
                          IsPrefix(e.post.messages, stored.messages)

\* C18: after any sequence of loadChatHistory, saveChatHistory, appendMessage and
\* deleteChatHistory calls on key (s, g), the record stored for the key and every
\* log loadChatHistory(s, g) returns carry sessionId = s and gameId = g.
C18_IdsFixed ==
    \A i \in 1..Len(Done) :
        /\ Done[i].post.state = "log" =>
              /\ Done[i].post.log.sessionId = Done[i].op.sessionId
              /\ Done[i].post.log.gameId = Done[i].op.gameId
        /\ (Done[i].op.name = "load" /\ Done[i].status = "ok") =>
              /\ Done[i].out.sessionId = Done[i].op.sessionId
              /\ Done[i].out.gameId = Done[i].op.gameId

\* C19: two calls with different (sessionId, gameId) pairs, whatever the form of
\* the ids, resolve to different locations.
C19_Injective ==
    \A p, q \in Procs :
        (/\ Active(p)
         /\ Active(q)
         /\ <<op[p].sessionId, op[p].gameId>> # <<op[q].sessionId, op[q].gameId>>) =>
            getChatFilePath(op[p].sessionId, op[p].gameId)
                # getChatFilePath(op[q].sessionId, op[q].gameId)

\* C20: a call on key k2 never waits for a respond call on another key k1: while
\* the respond call is suspended the call on k2 can start, and once started it
\* runs to completion even if the respond call stays suspended for ever.
C20_NoWaiting ==
    /\ []((Active("p1") /\ pc["p2"] = "idle" /\ nops < MaxKeysOps) =>
            /\ ENABLED StartLoad("p2", "s2", "fantasy-quest")
            /\ ENABLED StartAppend("p2", "s2", "fantasy-quest")
            /\ ENABLED StartDelete("p2", "s2", "fantasy-quest")
            /\ ENABLED StartPost("p2", "s2", "fantasy-quest"))
    /\ (Active("p1") /\ Active("p2")) ~> ~Active("p2")
C20_Witness ==
    /\ pc["p1"] = "provider"
    /\ PathOf("p1") # getChatFilePath("s2", "fantasy-quest")
    /\ Len(hist[getChatFilePath("s2", "fantasy-quest")]) = 1
    /\ hist[getChatFilePath("s2", "fantasy-quest")][1].op.started = 2

\* The key of the call that caller p is running in this step.
KeyInStep(p) ==
    IF Active(p) THEN <<op[p].sessionId, op[p].gameId>>
    ELSE <<op'[p].sessionId, op'[p].gameId>>

\* C21: a step of a call on key (s1, g1) leaves the file of every other key
\* (s2, g2) as it was, present or not, in every interleaving; and every log
\* that loadChatHistory or GET returns carries the session and game it was
\* asked for.
C21_KeyIsolation ==
    [][/\ \A p \in Procs :
             pc'[p] # pc[p] =>
                 \A s \in Sessions : \A g \in GameIds :
                     <<s, g>> # KeyInStep(p) =>
                         files'[getChatFilePath(s, g)] = files[getChatFilePath(s, g)]
       /\ \A s \in Sessions : \A g \in GameIds :
             LET h == hist'[getChatFilePath(s, g)]
             IN  \A i \in 1..Len(h) :
                     (h[i].op.name \in {"load", "get"} /\ h[i].status \in {"ok", "200"}) =>
                         /\ h[i].out.sessionId = h[i].op.sessionId
                         /\ h[i].out.gameId = h[i].op.gameId]_vars
C21_Witness ==
    LET h1 == hist[getChatFilePath("s1", "fantasy-quest")]
        h2 == hist[getChatFilePath("s2", "fantasy-quest")]
    IN  /\ Len(h1) = 1
        /\ h1[1].op.name \in {"append", "post"}
        /\ h1[1].post.messages # << >>
        /\ Len(h2) = 1
        /\ h2[1].op.name \in {"load", "get"}
        /\ h2[1].op.started = 2
        /\ h2[1].loc.overlapped = {}
        /\ h2[1].out.messages = << >>
        /\ h2[1].out.sessionId = "s2"

\* The calls of loadGames and reloadGames completed, in completion order.
GamesDone == hist[GAMES_CONFIG_PATH]
\* reloadGames was called after call i was over and before call j was made.
ReloadBetween(i, j) ==
    \/ \E k \in 1..Len(GamesDone) :
          /\ GamesDone[k].op.name = "reloadGames"
          /\ GamesDone[k].op.started > GamesDone[i].done
          /\ GamesDone[k].op.started < GamesDone[j].op.started
    \/ \E p \in Procs :
          /\ op[p].name = "reloadGames"
          /\ op[p].started > GamesDone[i].done
          /\ op[p].started < GamesDone[j].op.started

\* C22: once a loadGames call has returned an array, every loadGames call made
\* after that, with no reloadGames call in between, returns that same array and
\* does not read the file; reloadGames reads the file and returns an array that
\* no earlier call returned, which is the cached array when it returns.
C22_GamesCache ==
    \A j \in 1..Len(GamesDone) :
        /\ GamesDone[j].op.name = "loadGames" =>
              \A i \in 1..Len(GamesDone) :
                  (/\ GamesDone[j].op.started > GamesDone[i].done
                   /\ ~ReloadBetween(i, j)) =>
                      /\ GamesDone[j].out = GamesDone[i].out
                      /\ ~GamesDone[j].read
        /\ GamesDone[j].op.name = "reloadGames" =>
              /\ GamesDone[j].read
              /\ GamesDone[j].cached = GamesDone[j].out
              /\ \A i \in 1..(j - 1) : GamesDone[i].out.id # GamesDone[j].out.id

\* Call i + 1 is a respond call with the text of call i, made after call i.
RetryFollows(i) ==
    /\ i + 1 <= Len(Done)
    /\ Done[i + 1].op.name = "post"
    /\ Done[i + 1].op.body = Done[i].op.body

C25_NotALog ==
    \A i \in 1..Len(Done) :
        (Done[i].op.name = "load" /\ Done[i].loc.pre.state # "log") =>
            /\ Done[i].status = "ok"
            /\ Done[i].out = ChatHistory(<< >>, Done[i].op.gameId, Done[i].op.sessionId,
                                         Done[i].at, Done[i].at)
            /\ (i + 1 <= Len(Done) /\ Done[i + 1].op.name = "append") =>
                  Done[i + 1].status = "ok"

\* the step is taken by a loadChatHistory call or a GET /api/chat/:gameId
LoadStep(p) ==
    /\ <<pc[p], op[p], loc[p]>> # <<pc'[p], op'[p], loc'[p]>>
    /\ op[p].name \in {"load", "get"} \/ op'[p].name \in {"load", "get"}

\* C26: no step of loadChatHistory, called directly or through GET
\* /api/chat/:gameId, creates, changes or deletes a file or a directory; a key
\* without a stored record is still absent from storage after it.
C26_LoadReadOnly ==
    [][\A p \in Procs : LoadStep(p) =>
          /\ UNCHANGED <<files, dirs, inodes>>
          /\ ~files[Key].exists => ~files'[Key].exists]_vars

\* a load and a GET have both completed on a key that had, and has, no file
C26_Witness ==
    /\ Len(Done) = 2
    /\ {Done[1].op.name, Done[2].op.name} = {"load", "get"}
    /\ \A i \in 1..2 :
          /\ Done[i].loc.pre.state = "absent"
          /\ Done[i].out.messages = << >>
    /\ ~files[Key].exists

\* caller p takes a step of ensureDirectoryExists
EnsureStep(p) == pc[p] \in {"access", "mkdir"} /\ pc'[p] # pc[p]

\* C27: a step of ensureDirectoryExists changes nothing when the directory
\* exists, removes no file and no directory, never fails (the save goes on to
\* writeFile, also when another save created the directory in between), and
\* the directory exists when it returns.
C27_EnsureDirectory ==
    [][\A p \in Procs : EnsureStep(p) =>
          /\ files' = files
          /\ dirs \subseteq dirs'
          /\ dirname(PathOf(p)) \in dirs => dirs' = dirs
          /\ pc'[p] \in {"mkdir", "open"}
          /\ pc[p] = "mkdir" => pc'[p] = "open"
          /\ pc'[p] = "open" => dirname(PathOf(p)) \in dirs']_vars

\* both saves found the directory missing, one has created it and the other
\* is about to create it again
C27_Witness ==
    /\ pc["p1"] = "mkdir"
    /\ pc["p2"] \in {"open", "write"}
    /\ PathOf("p1") = PathOf("p2")
    /\ dirname(PathOf("p1")) \in dirs
    /\ ~files[PathOf("p1")].exists

\* the responses sent for request number n
Responses(n) ==
    {e \in UNION {{<<path, i>> : i \in 1..Len(hist[path])} : path \in Paths} :
        hist[e[1]][e[2]].op.started = n}
Running(n) == \E p \in Procs : Active(p) /\ op[p].started = n

\* C28: when every awaited call returns, a request that is running ends (Done
\* or Failed); a request that has ended has sent one response, a running one
\* none; the provider is called at most once and at most two appends are made
\* per request.
C28_Terminates ==
    /\ [](\A n \in 1..nops :
            Cardinality(Responses(n)) = IF Running(n) THEN 0 ELSE 1)
    /\ [](/\ \A p \in Procs : loc[p].invoked <= 1 /\ loc[p].appends <= 2
          /\ \A n \in 1..nops : \A e \in Responses(n) :
                /\ hist[e[1]][e[2]].loc.invoked <= 1
                /\ hist[e[1]][e[2]].loc.appends <= 2)
    /\ Active("p1") ~> ~Active("p1")

\* one request has ended in Done and another in Failed after the provider threw
C28_Witness ==
    /\ ~Active("p1")
    /\ Len(Done) = 2
    /\ \E i, j \in 1..2 :
          /\ Done[i].op.name = "post" /\ Done[i].status = "200"
          /\ Done[i].loc.appends = 2
          /\ Done[j].op.name = "post" /\ Done[j].status = "500"
          /\ CompletionFailed(Done[j].loc.completion)
    /\ Cardinality(Responses(1)) = 1 /\ Cardinality(Responses(2)) = 1

\* the user messages of the respond calls on path that produced assistant
\* message m (calls that are running and calls that have ended)
Producers(path, m) ==
    {loc[p].userMessage :
        p \in {q \in Procs : /\ Active(q)
                             /\ PathOf(q) = path
                             /\ loc[q].assistantMessage = m}}
    \cup {hist[path][i].loc.userMessage :
            i \in {j \in 1..Len(hist[path]) : hist[path][j].loc.assistantMessage = m}}

\* C29: in every reachable state, with respond calls interleaved on a key,
\* every assistant message in the stored log of a key has before it, in that
\* log, the user message of a respond call that produced it.
C29_AssistantAfterUser ==
    \A path \in Paths :
        LET ms == View(files[path]).messages
        IN  \A k \in 1..Len(ms) :
                ms[k].role = "assistant" =>
                    \E u \in Producers(path, ms[k]) :
                        \E j \in 1..(k - 1) : ms[j] = u

\* call w (its op and locals) was started after the completed call d returned
StartedAfter(w, wl, d) == w.started > d.op.started /\ d.op.started \notin wl.overlapped
\* a call that stores a log
Writes(w) == w.name \in {"append", "save", "post"}

\* C30: once deleteChatHistory(s, g) has returned, and as long as no append,
\* save or respond on the key was started after that, every loadChatHistory(s, g)
\* started later returns no messages, also when an appendMessage that began
\* before the delete completes after it.
C30_DeleteStays ==
    \A i \in 1..Len(Done) :
        (/\ Done[i].op.name = "delete"
         /\ Done[i].status = "ok"
         /\ \A p \in Procs :
               (Active(p) /\ PathOf(p) = Key /\ Writes(op[p])) =>
                   ~StartedAfter(op[p], loc[p], Done[i])
         /\ \A k \in 1..Len(Done) :
               Writes(Done[k].op) => ~StartedAfter(Done[k].op, Done[k].loc, Done[i])) =>
            \A j \in (i + 1)..Len(Done) :
                (/\ Done[j].op.name = "load"
                 /\ StartedAfter(Done[j].op, Done[j].loc, Done[i])) =>
                    Done[j].out.messages = << >>

====
